---- MODULE Spec2Model ----
(***************************************************************************)
(* Durable-outbox log shipping agent.                                      *)
(*   agent/agent_with_sql_outbox.py : SQLite outbox, MongoDB delivery,     *)
(*       the ingestion thread (monitor_logs) and the retry thread          *)
(*       (retry_loop), the severity classifier (parse_log_line).           *)
(*   agent/minimal_tail_agent.py    : the inode-tracking tailer.           *)
(* Timestamps (now_iso) are not modelled: no operation reads them.         *)
(***************************************************************************)
EXTENDS Naturals, Integers, Sequences, FiniteSets, Bags, TLC

\* ------------------------------------------------------------------ bounds
\* Size of the uuid pool, hence the largest number of outbox records.
MaxEvents == 3
\* BATCH_SIZE is read from the environment; the model tries 1..MaxBatch.
MaxBatch == 2
\* Number of transient remote faults (outage, dropped connection, rejected
\* documents) the environment may inject.
MaxFaults == 1
\* Number of process restarts.
MaxRestarts == 1

\* The default of BATCH_SIZE.
DefaultBatchSize == 5

\* ----------------------------------------------------------------- helpers
Range(s) == {s[i] : i \in 1..Len(s)}

Min(a, b) == IF a <= b THEN a ELSE b

\* str.upper() on the characters the model's lines are made of.
UpperChar(c) ==
    CASE c = "a" -> "A" [] c = "c" -> "C" [] c = "e" -> "E" [] c = "f" -> "F"
      [] c = "g" -> "G" [] c = "i" -> "I" [] c = "l" -> "L" [] c = "n" -> "N"
      [] c = "o" -> "O" [] c = "r" -> "R" [] c = "t" -> "T" [] c = "w" -> "W"
      [] c = "x" -> "X"
      [] OTHER -> c

Upper(s) == [i \in 1..Len(s) |-> UpperChar(s[i])]

\* Python's `sub in s`.
Contains(s, sub) ==
    \E i \in 1..(Len(s) + 1) :
        /\ i + Len(sub) - 1 <= Len(s)
        /\ SubSeq(s, i, i + Len(sub) - 1) = sub

\* line.rstrip("\n"): every trailing newline is removed.
RECURSIVE RStripNewline(_)
RStripNewline(s) ==
    IF Len(s) > 0 /\ s[Len(s)] = "\n"
    THEN RStripNewline(SubSeq(s, 1, Len(s) - 1))
    ELSE s

\* The characters of a level name.
Chars(level) ==
    CASE level = "CRITICAL" -> <<"C","R","I","T","I","C","A","L">>
      [] level = "FATAL" -> <<"F","A","T","A","L">>
      [] level = "ERROR" -> <<"E","R","R","O","R">>
      [] level = "WARNING" -> <<"W","A","R","N","I","N","G">>
      [] level = "WARN" -> <<"W","A","R","N">>

\* A precedence list with WARNING moved ahead of ERROR.
Levels_warning_first == <<"CRITICAL", "FATAL", "WARNING", "ERROR", "WARN">>

\* The precedence list of parse_log_line (line 174).
Levels == <<"CRITICAL", "FATAL", "ERROR", "WARNING", "WARN">>

None == [none |-> TRUE]

\* No call made yet.
Idle == [idle |-> TRUE]

\* The for/break loop of parse_log_line, from position k of the list.
RECURSIVE ScanLevels(_, _)
ScanLevels(up, k) ==
    IF k > Len(Levels) THEN "INFO"
    ELSE IF Contains(up, Chars(Levels[k])) THEN Levels[k]
    ELSE ScanLevels(up, k + 1)

Severity(line) == ScanLevels(Upper(line), 1)

\* parse_log_line without the test of line 170: an empty line is an event.
parse_log_line_keeps_empty(line, uuid) ==
    LET stripped == RStripNewline(line) IN
    [event_id |-> uuid, message |-> stripped, severity |-> Severity(stripped)]

\* parse_log_line(line), with the uuid4 it draws passed in.
parse_log_line(line, uuid) ==
    LET stripped == RStripNewline(line) IN
    IF stripped = <<>> THEN None
    ELSE [event_id |-> uuid, message |-> stripped, severity |-> Severity(stripped)]

\* ------------------------------------------------------------------- state
VARIABLES
    BATCH_SIZE,      \* the configured batch size (module global, line 29)
    outbox,          \* the SQLite table outbox, in rowid order
    remote,          \* the MongoDB collection: a bag of documents
    index_exists,    \* whether the unique index on event_id exists
    reachable,       \* whether MongoDB answers
    pc,              \* where each thread is
    rows,            \* per thread: the rows its flush_outbox fetched
    succeeded,       \* per thread: send_batch_to_mongo's first result
    failed,          \* per thread: send_batch_to_mongo's second result
    last_append,     \* which branch the last persist_log took
    faults,          \* transient remote faults injected so far
    restarts,        \* process restarts so far
    unsent_at_restart,     \* history: the event_ids unsent at the last restart
    first_flush,     \* history: how the first flush_outbox call since then ended
    flush_log,       \* history (scenario): the event_ids each flush marked
    p_line,          \* classifier model: the line handed to parse_log_line
    p_result,        \* classifier model: what parse_log_line returned
    start_at_end,    \* tailer: the start position policy (--start-at-end)
    path_inode,      \* file system: the inode at the watched path, 0 if none
    files,           \* file system: the content of each inode
    n_inodes,        \* file system: inodes allocated so far
    truncations,     \* file system: truncations of the watched file so far
    t_pc,            \* tailer: where tail_file is
    t_inode,         \* tailer: its variable inode (0 for None)
    t_st,            \* tailer: st.st_ino of its last os.stat
    t_pos,           \* tailer: its variable pos
    t_f,             \* tailer: the file object f (inode and offset)
    emitted          \* history: the lines handed to persist_match

outboxVars == <<BATCH_SIZE, outbox, remote, index_exists, reachable, pc, rows,
                succeeded, failed, last_append, faults, restarts,
                unsent_at_restart, first_flush>>

Threads == {"main", "retry"}

\* uuid4() draws from this pool.
EventIds == 1..MaxEvents

\* ------------------------------------------------------------ SQLite outbox
HasEvent(ob, eid) == \E i \in 1..Len(ob) : ob[i].event_id = eid

\* AUTOINCREMENT: one more than the largest rowid ever used (no row is deleted).
NextId(ob) == IF Len(ob) = 0 THEN 1 ELSE ob[Len(ob)].id + 1

\* persist_log as INSERT OR REPLACE: a duplicate replaces the existing row.
persist_log_replace(ob, entry) ==
    LET NotThis(r) == r.event_id # entry.event_id
        kept == SelectSeq(ob, NotThis)
    IN  Append(kept, [id |-> NextId(ob), event_id |-> entry.event_id,
                      message |-> entry.message, severity |-> entry.severity,
                      sent |-> FALSE])

\* persist_log: the INSERT, or nothing when the UNIQUE constraint rejects it.
persist_log(ob, entry) ==
    IF HasEvent(ob, entry.event_id)
    THEN ob
    ELSE Append(ob, [id |-> NextId(ob), event_id |-> entry.event_id,
                     message |-> entry.message, severity |-> entry.severity,
                     sent |-> FALSE])

\* What persist_log prints: the try branch or the IntegrityError branch.
persist_report(ob, entry) ==
    IF HasEvent(ob, entry.event_id) THEN "AlreadyExists" ELSE "Inserted"

Row(r) == [event_id |-> r.event_id, message |-> r.message, severity |-> r.severity]

IsUnsent(r) == ~r.sent

\* fetch_unsent with the LIMIT applied to the table before the sent filter.
fetch_unsent_limit_first(ob, limit) ==
    LET head == SubSeq(ob, 1, Min(limit, Len(ob)))
        unsent == SelectSeq(head, IsUnsent)
    IN  [i \in 1..Len(unsent) |-> Row(unsent[i])]

\* fetch_unsent without the LIMIT clause.
fetch_unsent_no_limit(ob, limit) ==
    LET unsent == SelectSeq(ob, IsUnsent)
    IN  [i \in 1..Len(unsent) |-> Row(unsent[i])]

\* fetch_unsent with ORDER BY id DESC: the newest unsent rows first.
fetch_unsent_newest_first(ob, limit) ==
    LET unsent == SelectSeq(ob, IsUnsent)
        n == Min(limit, Len(unsent))
    IN  [i \in 1..n |-> Row(unsent[Len(unsent) + 1 - i])]

\* SELECT ... WHERE sent = 0 ORDER BY id ASC LIMIT ?
fetch_unsent(ob, limit) ==
    LET unsent == SelectSeq(ob, IsUnsent)
        n == Min(limit, Len(unsent))
    IN  [i \in 1..n |-> Row(unsent[i])]

\* mark_sent as UPDATE outbox SET sent = (event_id IN (...)): it clears the
\* flag of every other row.
mark_sent_assign(ob, event_ids) ==
    IF event_ids = <<>> THEN ob
    ELSE [i \in 1..Len(ob) |->
            [ob[i] EXCEPT !.sent = (ob[i].event_id \in Range(event_ids))]]

\* mark_sent without its WHERE clause: every record is flagged.
mark_sent_every_row(ob, event_ids) ==
    IF event_ids = <<>> THEN ob
    ELSE [i \in 1..Len(ob) |-> [ob[i] EXCEPT !.sent = TRUE]]

\* UPDATE outbox SET sent = 1 WHERE event_id IN (...)
mark_sent(ob, event_ids) ==
    IF event_ids = <<>> THEN ob
    ELSE [i \in 1..Len(ob) |->
            IF ob[i].event_id \in Range(event_ids)
            THEN [ob[i] EXCEPT !.sent = TRUE]
            ELSE ob[i]]

\* ------------------------------------------------------------------ MongoDB
\* The number of documents of the collection that carry event_id eid.
DocCount(rem, eid) ==
    LET ds == {d \in BagToSet(rem) : d.event_id = eid}
    IN  BagCardinality([d \in ds |-> CopiesIn(d, rem)])

Present(rem, eid) == \E d \in BagToSet(rem) : d.event_id = eid

HasDuplicates(rem) == \E d \in BagToSet(rem) : CopiesIn(d, rem) > 1

\* The documents of `docs` the server stores: with the unique index a document
\* whose event_id is already present is a duplicate-key write error.
Accepted(rem, idx, docs) ==
    {d \in docs : ~(idx /\ Present(rem, d.event_id))}

\* coll.insert_many(docs, ordered=False) over the documents the server got to.
insert_many(rem, idx, docs) == rem (+) SetToBag(Accepted(rem, idx, docs))

\* coll.create_index("event_id", unique=True): fails when the server does not
\* answer or the collection already holds duplicates; init_mongo swallows it.
create_index(rem, idx, up) == idx \/ (up /\ ~HasDuplicates(rem))

EventIdsOf(docs) == [i \in 1..Len(docs) |-> docs[i].event_id]

\* A reconciliation that trusts the batch: every event_id counts as stored.
Reconcile_trust_all(rem, docs) ==
    [succeeded |-> EventIdsOf(docs), failed |-> <<>>]

\* A reconciliation with the two membership tests exchanged.
Reconcile_swapped(rem, docs) ==
    LET event_ids == EventIdsOf(docs)
        InFound(eid) == Present(rem, eid)
        NotFound(eid) == ~Present(rem, eid)
    IN  [succeeded |-> SelectSeq(event_ids, NotFound),
         failed |-> SelectSeq(event_ids, InFound)]

\* The reconciliation of send_batch_to_mongo (lines 105-110).
Reconcile(rem, docs) ==
    LET event_ids == EventIdsOf(docs)
        InFound(eid) == Present(rem, eid)
        NotFound(eid) == ~Present(rem, eid)
    IN  [succeeded |-> SelectSeq(event_ids, InFound),
         failed |-> SelectSeq(event_ids, NotFound)]

\* init_sqlite that drops and recreates the table.
init_sqlite_recreate(ob) == <<>>

\* init_sqlite: CREATE TABLE IF NOT EXISTS keeps the rows of an existing file.
init_sqlite(ob) == ob

\* ------------------------------------------------- lines of the main model
\* What follow() yields in the delivery model: a blank line and a log line.
MainLines == { <<"\n">>, <<"e", "r", "r", "\n">> }

\* What uuid4() can return: an identifier no record carries yet, or (improbable,
\* not impossible) one that some record carries. Unused identifiers are
\* interchangeable, so the largest stands for all of them.
UuidChoices(ob) ==
    LET used == {ob[i].event_id : i \in 1..Len(ob)}
        free == EventIds \ used
    IN  used \cup (IF free = {} THEN {}
                   ELSE {CHOOSE e \in free : \A f \in free : f <= e})

\* ---------------------------------------------------------- thread actions
NoRows == [t \in Threads |-> <<>>]

UnsentIds(ob) == {ob[i].event_id : i \in {j \in 1..Len(ob) : ~ob[j].sent}}

\* Callers without their exception handlers: a raised flush ends the thread.
FlushEnd_terminates(t, how) ==
    /\ pc' = [pc EXCEPT ![t] = IF how = "raised" THEN "off"
                               ELSE IF t = "main" THEN "read" ELSE "sleep"]
    /\ rows' = [rows EXCEPT ![t] = <<>>]
    /\ succeeded' = [succeeded EXCEPT ![t] = <<>>]
    /\ failed' = [failed EXCEPT ![t] = <<>>]
    /\ first_flush' = IF first_flush = "none" THEN how ELSE first_flush

\* flush_outbox returns ("returned") or lets the exception through ("raised").
\* monitor_logs swallows it and reads on; retry_loop sleeps 5 s first.
FlushEnd(t, how) ==
    /\ pc' = [pc EXCEPT ![t] = IF t = "main" THEN "read"
                               ELSE IF how = "raised" THEN "cooldown"
                               ELSE "sleep"]
    /\ rows' = [rows EXCEPT ![t] = <<>>]
    /\ succeeded' = [succeeded EXCEPT ![t] = <<>>]
    /\ failed' = [failed EXCEPT ![t] = <<>>]
    /\ first_flush' = IF first_flush = "none" THEN how ELSE first_flush

\* monitor_logs, lines 206-207: the main thread's connections.
MainBoot ==
    /\ pc["main"] = "boot"
    /\ outbox' = init_sqlite(outbox)
    /\ index_exists' = create_index(remote, index_exists, reachable)
    /\ pc' = [pc EXCEPT !["main"] = "spawn"]
    /\ UNCHANGED <<BATCH_SIZE, remote, reachable, rows, succeeded, failed,
                   last_append, faults, restarts,
                   unsent_at_restart, first_flush>>

\* monitor_logs, lines 210-211: start the retry thread.
MainSpawn ==
    /\ pc["main"] = "spawn"
    /\ pc' = [pc EXCEPT !["main"] = "read", !["retry"] = "init"]
    /\ UNCHANGED <<BATCH_SIZE, outbox, remote, index_exists, reachable, rows,
                   succeeded, failed, last_append, faults,
                   restarts, unsent_at_restart, first_flush>>

\* monitor_logs, lines 219-224: the line that follow() yields is parsed and,
\* unless parse_log_line returns None, persisted.
MainReadLine(line) ==
    /\ pc["main"] = "read"
    /\ \E uuid \in UuidChoices(outbox) :
         LET entry == parse_log_line(line, uuid) IN
         IF entry = None
         THEN UNCHANGED <<outbox, last_append, pc>>
         ELSE /\ outbox' = persist_log(outbox, entry)
              /\ last_append' = persist_report(outbox, entry)
              /\ pc' = [pc EXCEPT !["main"] = "fetch"]
    /\ UNCHANGED <<BATCH_SIZE, remote, index_exists, reachable, rows,
                   succeeded, failed, faults, restarts,
                   unsent_at_restart, first_flush>>

MainRead == \E line \in MainLines : MainReadLine(line)

\* retry_loop, lines 154-155: the retry thread's own connections.
RetryInit ==
    /\ pc["retry"] = "init"
    /\ outbox' = init_sqlite(outbox)
    /\ index_exists' = create_index(remote, index_exists, reachable)
    /\ pc' = [pc EXCEPT !["retry"] = "sleep"]
    /\ UNCHANGED <<BATCH_SIZE, remote, reachable, rows, succeeded, failed,
                   last_append, faults, restarts,
                   unsent_at_restart, first_flush>>

\* retry_loop, line 158: time.sleep(interval), then flush_outbox.
RetrySleep ==
    /\ pc["retry"] = "sleep"
    /\ pc' = [pc EXCEPT !["retry"] = "fetch"]
    /\ UNCHANGED <<BATCH_SIZE, outbox, remote, index_exists, reachable, rows,
                   succeeded, failed, last_append, faults,
                   restarts, unsent_at_restart, first_flush>>

\* retry_loop, lines 161-165: the cooldown after an exception.
RetryCooldown ==
    /\ pc["retry"] = "cooldown"
    /\ pc' = [pc EXCEPT !["retry"] = "sleep"]
    /\ UNCHANGED <<BATCH_SIZE, outbox, remote, index_exists, reachable, rows,
                   succeeded, failed, last_append, faults,
                   restarts, unsent_at_restart, first_flush>>

\* flush_outbox, lines 117-119.
Fetch(t) ==
    /\ pc[t] = "fetch"
    /\ LET got == fetch_unsent(outbox, BATCH_SIZE) IN
       IF got = <<>>
       THEN FlushEnd(t, "returned")
       ELSE /\ rows' = [rows EXCEPT ![t] = got]
            /\ pc' = [pc EXCEPT ![t] = "insert"]
            /\ UNCHANGED <<succeeded, failed, first_flush>>
    /\ UNCHANGED <<BATCH_SIZE, outbox, remote, index_exists, reachable,
                   last_append, faults, restarts, unsent_at_restart>>

\* send_batch_to_mongo, lines 97-100 and 111-113: the server does not answer.
InsertUnreachable(t) ==
    /\ pc[t] = "insert"
    /\ ~reachable
    /\ FlushEnd(t, "raised")
    /\ UNCHANGED <<BATCH_SIZE, outbox, remote, index_exists, reachable,
                   last_append, faults, restarts, unsent_at_restart>>

\* send_batch_to_mongo, lines 97-101: insert_many with no fault. Every
\* document is stored, or the duplicates raise BulkWriteError.
InsertClean(t) ==
    /\ pc[t] = "insert"
    /\ reachable
    /\ LET docs == Range(rows[t]) IN
       /\ remote' = insert_many(remote, index_exists, docs)
       /\ IF Accepted(remote, index_exists, docs) = docs
          THEN /\ succeeded' = [succeeded EXCEPT ![t] = EventIdsOf(rows[t])]
               /\ failed' = [failed EXCEPT ![t] = <<>>]
               /\ pc' = [pc EXCEPT ![t] = "mark"]
          ELSE /\ pc' = [pc EXCEPT ![t] = "find"]
               /\ UNCHANGED <<succeeded, failed>>
    /\ UNCHANGED <<BATCH_SIZE, outbox, index_exists, reachable, rows,
                   last_append, faults, restarts,
                   unsent_at_restart, first_flush>>

\* insert_many under a transient fault: the server gets to only some of the
\* documents, and the call ends in BulkWriteError (rejected documents)...
InsertPartial(t) ==
    /\ pc[t] = "insert"
    /\ reachable
    /\ faults < MaxFaults
    /\ \E done \in SUBSET Range(rows[t]) :
         /\ done # Range(rows[t])
         /\ remote' = insert_many(remote, index_exists, done)
    /\ faults' = faults + 1
    /\ pc' = [pc EXCEPT ![t] = "find"]
    /\ UNCHANGED <<BATCH_SIZE, outbox, index_exists, reachable, rows,
                   succeeded, failed, last_append, restarts,
                   unsent_at_restart, first_flush>>

\* A flush that marks its batch sent before the send has been confirmed: the
\* dropped connection then leaves the flags set.
InsertDropped_marks(t) ==
    /\ pc[t] = "insert"
    /\ reachable
    /\ faults < MaxFaults
    /\ \E done \in SUBSET Range(rows[t]) :
         remote' = insert_many(remote, index_exists, done)
    /\ outbox' = mark_sent(outbox, EventIdsOf(rows[t]))
    /\ faults' = faults + 1
    /\ FlushEnd(t, "raised")
    /\ UNCHANGED <<BATCH_SIZE, index_exists, reachable, last_append,
                   restarts, unsent_at_restart>>

\* ... or the connection drops before the reply: some other exception.
InsertDropped(t) ==
    /\ pc[t] = "insert"
    /\ reachable
    /\ faults < MaxFaults
    /\ \E done \in SUBSET Range(rows[t]) :
         remote' = insert_many(remote, index_exists, done)
    /\ faults' = faults + 1
    /\ FlushEnd(t, "raised")
    /\ UNCHANGED <<BATCH_SIZE, outbox, index_exists, reachable, last_append,
                   restarts, unsent_at_restart>>

\* send_batch_to_mongo, lines 105-110: the reconciliation query.
Find(t) ==
    /\ pc[t] = "find"
    /\ reachable
    /\ LET r == Reconcile(remote, rows[t]) IN
       /\ succeeded' = [succeeded EXCEPT ![t] = r.succeeded]
       /\ failed' = [failed EXCEPT ![t] = r.failed]
    /\ pc' = [pc EXCEPT ![t] = "mark"]
    /\ UNCHANGED <<BATCH_SIZE, outbox, remote, index_exists, reachable, rows,
                   last_append, faults, restarts,
                   unsent_at_restart, first_flush>>

\* coll.find raises inside the except block: the server stopped answering.
FindUnreachable(t) ==
    /\ pc[t] = "find"
    /\ ~reachable
    /\ FlushEnd(t, "raised")
    /\ UNCHANGED <<BATCH_SIZE, outbox, remote, index_exists, reachable,
                   last_append, faults, restarts, unsent_at_restart>>

\* flush_outbox, lines 136-145.
Mark(t) ==
    /\ pc[t] = "mark"
    /\ outbox' = mark_sent(outbox, succeeded[t])
    /\ FlushEnd(t, "returned")
    /\ UNCHANGED <<BATCH_SIZE, remote, index_exists, reachable, last_append,
                   faults, restarts, unsent_at_restart>>

\* ------------------------------------------------------------- environment
\* MongoDB stops answering (a transient fault) and answers again.
GoDown ==
    /\ reachable
    /\ faults < MaxFaults
    /\ reachable' = FALSE
    /\ faults' = faults + 1
    /\ UNCHANGED <<BATCH_SIZE, outbox, remote, index_exists, pc, rows,
                   succeeded, failed, last_append, restarts,
                   unsent_at_restart, first_flush>>

ComeUp ==
    /\ ~reachable
    /\ reachable' = TRUE
    /\ UNCHANGED <<BATCH_SIZE, outbox, remote, index_exists, pc, rows,
                   succeeded, failed, last_append, faults,
                   restarts, unsent_at_restart, first_flush>>

\* The process dies and is started again: both threads and everything they
\* hold in memory are gone, the outbox file and the collection stay.
Restart ==
    /\ restarts < MaxRestarts
    /\ restarts' = restarts + 1
    /\ pc' = [t \in Threads |-> IF t = "main" THEN "boot" ELSE "off"]
    /\ rows' = NoRows
    /\ succeeded' = NoRows
    /\ failed' = NoRows
    /\ last_append' = "none"
    /\ unsent_at_restart' = UnsentIds(outbox)
    /\ first_flush' = "none"
    /\ UNCHANGED <<BATCH_SIZE, outbox, remote, index_exists, reachable, faults>>

\* ------------------------------------------------------ the delivery model
OutboxInit ==
    /\ BATCH_SIZE \in 1..MaxBatch
    /\ outbox = <<>>
    /\ remote = EmptyBag
    /\ index_exists = FALSE
    /\ reachable \in BOOLEAN
    /\ pc = [t \in Threads |-> IF t = "main" THEN "boot" ELSE "off"]
    /\ rows = NoRows
    /\ succeeded = NoRows
    /\ failed = NoRows
    /\ last_append = "none"
    /\ faults = 0
    /\ restarts = 0
    /\ unsent_at_restart = {}
    /\ first_flush = "none"

parseVars == <<p_line, p_result>>

tailVars == <<start_at_end, path_inode, files, n_inodes, truncations, t_pc,
              t_inode, t_st, t_pos, t_f, emitted>>

vars == <<outboxVars, flush_log, parseVars, tailVars>>

\* The other models' variables, at rest.
ParseIdle == p_line = <<>> /\ p_result = Idle

TailIdle ==
    /\ start_at_end = TRUE
    /\ path_inode = 0
    /\ files = <<>>
    /\ n_inodes = 0
    /\ truncations = 0
    /\ t_pc = "off"
    /\ t_inode = 0
    /\ t_st = 0
    /\ t_pos = 0
    /\ t_f = [inode |-> 0, off |-> 0]
    /\ emitted = <<>>

Quiet == UNCHANGED <<flush_log, parseVars, tailVars>>

Init == OutboxInit /\ flush_log = <<>> /\ ParseIdle /\ TailIdle

Next ==
    \/ MainBoot /\ Quiet
    \/ MainSpawn /\ Quiet
    \/ MainRead /\ Quiet
    \/ RetryInit /\ Quiet
    \/ RetrySleep /\ Quiet
    \/ RetryCooldown /\ Quiet
    \/ \E t \in Threads : Fetch(t) /\ Quiet
    \/ \E t \in Threads : InsertUnreachable(t) /\ Quiet
    \/ \E t \in Threads : InsertClean(t) /\ Quiet
    \/ \E t \in Threads : InsertPartial(t) /\ Quiet
    \/ \E t \in Threads : InsertDropped(t) /\ Quiet
    \/ \E t \in Threads : Find(t) /\ Quiet
    \/ \E t \in Threads : FindUnreachable(t) /\ Quiet
    \/ \E t \in Threads : Mark(t) /\ Quiet
    \/ GoDown /\ Quiet
    \/ ComeUp /\ Quiet
    \/ Restart /\ Quiet

Spec == Init /\ [][Next]_vars

\* Any step of the retry thread.
RetryStep ==
    \/ RetryInit
    \/ RetrySleep
    \/ RetryCooldown
    \/ Fetch("retry")
    \/ InsertUnreachable("retry")
    \/ InsertClean("retry")
    \/ InsertPartial("retry")
    \/ InsertDropped("retry")
    \/ Find("retry")
    \/ FindUnreachable("retry")
    \/ Mark("retry")

\* The delivery model with the scheduling the program has: a started process
\* opens its connections and starts the retry thread, the retry thread keeps
\* running (its sleeps end), and an outage of the remote store ends. The
\* ingestion thread may wait for a line for ever, and faults are transient
\* (at most MaxFaults of them).
LiveSpec ==
    /\ Init
    /\ [][Next]_vars
    /\ WF_vars((MainBoot \/ MainSpawn) /\ Quiet)
    /\ WF_vars(RetryStep /\ Quiet)
    /\ WF_vars(ComeUp /\ Quiet)

\* ---------------------------------------------------- the classifier model
\* Lines are built from these pieces: the keywords in several cases, pieces
\* that complete or break a keyword, and filler.
Pieces ==
    { <<"c","r","i","t","i","c","a","l">>, <<"F","a","t","a","l">>,
      <<"e","r","r","o","r">>, <<"W","A","R","N","I","N","G">>,
      <<"w","a","r","n">>, <<"i","n","g">>, <<"x">>, <<" ">> }

\* The largest number of pieces in a line.
MaxPieces == 3

RECURSIVE Join(_)
Join(ps) == IF ps = <<>> THEN <<>> ELSE Head(ps) \o Join(Tail(ps))

PieceSeqs == UNION {[1..n -> Pieces] : n \in 0..MaxPieces}

\* Every line of at most MaxPieces pieces, with and without its newline.
ParseLines ==
    {Join(ps) : ps \in PieceSeqs} \cup {Join(ps) \o <<"\n">> : ps \in PieceSeqs}

ParseInit ==
    /\ p_line \in ParseLines
    /\ p_result = Idle

\* One call of parse_log_line on the line.
Classify ==
    /\ p_result = Idle
    /\ \E uuid \in EventIds : p_result' = parse_log_line(p_line, uuid)
    /\ UNCHANGED p_line

OutboxIdle ==
    /\ BATCH_SIZE = DefaultBatchSize
    /\ outbox = <<>>
    /\ remote = EmptyBag
    /\ index_exists = FALSE
    /\ reachable = FALSE
    /\ pc = [t \in Threads |-> "off"]
    /\ rows = NoRows
    /\ succeeded = NoRows
    /\ failed = NoRows
    /\ last_append = "none"
    /\ faults = 0
    /\ restarts = 0
    /\ unsent_at_restart = {}
    /\ first_flush = "none"

InitParse == ParseInit /\ OutboxIdle /\ flush_log = <<>> /\ TailIdle

NextParse == Classify /\ UNCHANGED <<outboxVars, flush_log, tailVars>>

SpecParse == InitParse /\ [][NextParse]_vars

\* ------------------------------------------------- the batch-drain scenario
\* The scenario of the specification, run on the main thread's handles alone:
\* 2 * BATCH_SIZE + 2 events are appended while the remote store does not
\* answer (12 events for the default BATCH_SIZE of 5), flush_outbox is
\* attempted at any moment, then the store answers and flush_outbox is called
\* again and again. (The last batch is the 2 left over, so BATCH_SIZE >= 2.)
ScenarioEvents == 2 * BATCH_SIZE + 2

ScenarioInit ==
    /\ BATCH_SIZE \in 2..DefaultBatchSize
    /\ outbox = <<>>
    /\ remote = EmptyBag
    /\ index_exists \in BOOLEAN
    /\ reachable = FALSE
    /\ pc = [t \in Threads |-> IF t = "main" THEN "read" ELSE "off"]
    /\ rows = NoRows
    /\ succeeded = NoRows
    /\ failed = NoRows
    /\ last_append = "none"
    /\ faults = 0
    /\ restarts = 0
    /\ unsent_at_restart = {}
    /\ first_flush = "none"
    /\ flush_log = <<>>

\* persist_log of the next event; its uuid is unlike its rowid.
ScAppend ==
    /\ pc["main"] = "read"
    /\ ~reachable
    /\ Len(outbox) < ScenarioEvents
    /\ LET entry == parse_log_line(<<"e", "r", "r", "\n">>,
                                   ScenarioEvents - Len(outbox))
       IN  /\ outbox' = persist_log(outbox, entry)
           /\ last_append' = persist_report(outbox, entry)
    /\ UNCHANGED <<BATCH_SIZE, remote, index_exists, reachable, pc, rows,
                   succeeded, failed, faults, restarts, unsent_at_restart,
                   first_flush, flush_log>>

\* A call of flush_outbox.
ScFlush ==
    /\ pc["main"] = "read"
    /\ pc' = [pc EXCEPT !["main"] = "fetch"]
    /\ UNCHANGED <<BATCH_SIZE, outbox, remote, index_exists, reachable, rows,
                   succeeded, failed, last_append, faults, restarts,
                   unsent_at_restart, first_flush, flush_log>>

\* The remote store becomes reachable once every event is appended.
ScReach ==
    /\ pc["main"] = "read"
    /\ ~reachable
    /\ Len(outbox) = ScenarioEvents
    /\ reachable' = TRUE
    /\ UNCHANGED <<BATCH_SIZE, outbox, remote, index_exists, pc, rows,
                   succeeded, failed, last_append, faults, restarts,
                   unsent_at_restart, first_flush, flush_log>>

ScFetch == Fetch("main") /\ UNCHANGED flush_log

ScInsertUnreachable == InsertUnreachable("main") /\ UNCHANGED flush_log

ScInsert == InsertClean("main") /\ UNCHANGED flush_log

ScMark == Mark("main") /\ flush_log' = Append(flush_log, succeeded["main"])

InitScenario == ScenarioInit /\ ParseIdle /\ TailIdle

NextScenario ==
    \/ ScAppend /\ UNCHANGED <<parseVars, tailVars>>
    \/ ScFlush /\ UNCHANGED <<parseVars, tailVars>>
    \/ ScReach /\ UNCHANGED <<parseVars, tailVars>>
    \/ ScFetch /\ UNCHANGED <<parseVars, tailVars>>
    \/ ScInsertUnreachable /\ UNCHANGED <<parseVars, tailVars>>
    \/ ScInsert /\ UNCHANGED <<parseVars, tailVars>>
    \/ ScMark /\ UNCHANGED <<parseVars, tailVars>>

SpecScenario == InitScenario /\ [][NextScenario]_vars

\* ------------------------------------------------------ the ingestion model
\* The ingestion loop alone (monitor_logs without the retry thread) over lines
\* that are empty, made of whitespace, or text. p_line and p_result record the
\* line follow() yielded last and what parse_log_line made of it.
IngestLines ==
    { <<"\n">>, <<" ", "\n">>, <<"e", "r", "r", "\n">> }

IngestInit ==
    /\ BATCH_SIZE \in 1..MaxBatch
    /\ outbox = <<>>
    /\ remote = EmptyBag
    /\ index_exists \in BOOLEAN
    /\ reachable \in BOOLEAN
    /\ pc = [t \in Threads |-> IF t = "main" THEN "read" ELSE "off"]
    /\ rows = NoRows
    /\ succeeded = NoRows
    /\ failed = NoRows
    /\ last_append = "none"
    /\ faults = 0
    /\ restarts = 0
    /\ unsent_at_restart = {}
    /\ first_flush = "none"
    /\ flush_log = <<>>
    /\ p_line = <<>>
    /\ p_result = Idle

IngestRead ==
    \E line \in IngestLines :
        /\ MainReadLine(line)
        /\ p_line' = line
        /\ p_result' = IF pc'["main"] = "fetch"
                       THEN [parsed |-> TRUE] ELSE None

InitIngest == IngestInit /\ TailIdle

NextIngest ==
    \/ IngestRead /\ UNCHANGED <<flush_log, tailVars>>
    \/ Fetch("main") /\ Quiet
    \/ InsertUnreachable("main") /\ Quiet
    \/ InsertClean("main") /\ Quiet
    \/ Mark("main") /\ Quiet
    \/ GoDown /\ Quiet
    \/ ComeUp /\ Quiet

SpecIngest == InitIngest /\ [][NextIngest]_vars

\* --------------------------------------------------------- the tailer model
\* tail_file of minimal_tail_agent.py over a file system in which a writer
\* appends to the file at the watched path and the file is rotated, removed
\* and created. A file is a sequence of characters; the model's writer writes
\* "e" and newline, and the tailer runs with --regex e.

\* The longest file.
MaxFileLen == 3
\* The number of files ever created at the path.
MaxInodes == 2
\* The number of times the watched file is truncated in place.
MaxTruncations == 1

FileChars == {"e", "\n"}

\* pat.search(line) for the pattern "e" compiled with re.IGNORECASE.
Matches(line) == Contains(Upper(line), <<"E">>)

\* f.readline() at offset off of content c: up to and including the next
\* newline, or up to the end of the file when there is none.
ReadLine(c, off) ==
    LET ends == {k \in (off + 1)..Len(c) : c[k] = "\n"}
        stop == IF ends = {} THEN Len(c)
                ELSE CHOOSE k \in ends : \A m \in ends : k <= m
    IN  SubSeq(c, off + 1, stop)

TailInit ==
    /\ start_at_end \in BOOLEAN
    /\ path_inode \in {0, 1}
    /\ n_inodes = path_inode
    /\ files = [i \in 1..MaxInodes |-> <<>>]
    /\ truncations = 0
    /\ t_pc = "check"
    /\ t_inode = 0
    /\ t_st = 0
    /\ t_pos = 0
    /\ t_f = [inode |-> 0, off |-> 0]
    /\ emitted = <<>>

\* Any exception in the loop body: printed, sleep(1), next iteration.
TailError == t_pc' = "check"

\* Lines 50-52: os.path.exists(path).
TailCheck ==
    /\ t_pc = "check"
    /\ t_pc' = IF path_inode = 0 THEN "check" ELSE "stat"
    /\ UNCHANGED <<start_at_end, truncations, path_inode, files, n_inodes,
                   t_inode, t_st, t_pos, t_f, emitted>>

\* Line 53: st = os.stat(path).
TailStat ==
    /\ t_pc = "stat"
    /\ IF path_inode = 0
       THEN TailError /\ UNCHANGED t_st
       ELSE t_st' = path_inode /\ t_pc' = "open"
    /\ UNCHANGED <<start_at_end, truncations, path_inode, files, n_inodes,
                   t_inode, t_pos, t_f, emitted>>

\* Lines 54-65: open(path), which opens whatever is at the path now, and seek.
TailOpen ==
    /\ t_pc = "open"
    /\ IF path_inode = 0
       THEN TailError /\ UNCHANGED <<t_inode, t_pos, t_f>>
       ELSE IF t_inode # t_st
       THEN LET at == IF start_at_end THEN Len(files[path_inode]) ELSE 0 IN
            /\ t_f' = [inode |-> path_inode, off |-> at]
            /\ t_inode' = t_st
            /\ t_pos' = at
            /\ t_pc' = "readline"
       ELSE /\ t_f' = [inode |-> path_inode, off |-> t_pos]
            /\ t_pc' = "readline"
            /\ UNCHANGED <<t_inode, t_pos>>
    /\ UNCHANGED <<start_at_end, truncations, path_inode, files, n_inodes,
                   t_st, emitted>>

\* Lines 67-80: one f.readline() and what the loop does with it.
TailReadline ==
    /\ t_pc = "readline"
    /\ LET line == ReadLine(files[t_f.inode], t_f.off)
           text == RStripNewline(line)
       IN  IF line = <<>>
           THEN /\ t_pos' = t_f.off
                /\ t_pc' = "check"
                /\ UNCHANGED <<t_f, emitted>>
           ELSE /\ t_f' = [t_f EXCEPT !.off = t_f.off + Len(line)]
                /\ emitted' = IF Matches(text)
                              THEN Append(emitted, [inode |-> t_f.inode,
                                                    off |-> t_f.off,
                                                    text |-> text])
                              ELSE emitted
                /\ UNCHANGED <<t_pos, t_pc>>
    /\ UNCHANGED <<start_at_end, truncations, path_inode, files, n_inodes,
                   t_inode, t_st>>

\* Lines 74-80 when persist_match raises (disk full, database locked): the
\* handler prints "Persist failed" and the loop takes the next line.
TailPersistFails ==
    /\ t_pc = "readline"
    /\ LET line == ReadLine(files[t_f.inode], t_f.off)
           text == RStripNewline(line)
       IN  /\ line # <<>>
           /\ Matches(text)
           /\ t_f' = [t_f EXCEPT !.off = t_f.off + Len(line)]
    /\ UNCHANGED <<start_at_end, truncations, path_inode, files, n_inodes,
                   t_inode, t_st, t_pos, t_pc, emitted>>

\* The writer appends one character to the file at the path.
FsWrite ==
    /\ path_inode # 0
    /\ Len(files[path_inode]) < MaxFileLen
    /\ \E c \in FileChars :
         files' = [files EXCEPT ![path_inode] = Append(@, c)]
    /\ UNCHANGED <<start_at_end, truncations, path_inode, n_inodes, t_pc,
                   t_inode, t_st, t_pos, t_f, emitted>>

\* The file at the path is truncated in place (same inode, size 0), as
\* copytruncate rotation or `> file` does.
FsTruncate ==
    /\ path_inode # 0
    /\ files[path_inode] # <<>>
    /\ truncations < MaxTruncations
    /\ truncations' = truncations + 1
    /\ files' = [files EXCEPT ![path_inode] = <<>>]
    /\ UNCHANGED <<start_at_end, path_inode, n_inodes, t_pc, t_inode, t_st,
                   t_pos, t_f, emitted>>

\* Rotation: the file is renamed away and a new, empty one takes the path.
FsRotate ==
    /\ path_inode # 0
    /\ n_inodes < MaxInodes
    /\ n_inodes' = n_inodes + 1
    /\ path_inode' = n_inodes + 1
    /\ UNCHANGED <<start_at_end, truncations, files, t_pc, t_inode, t_st,
                   t_pos, t_f, emitted>>

\* The file is renamed away and nothing is at the path.
FsRemove ==
    /\ path_inode # 0
    /\ path_inode' = 0
    /\ UNCHANGED <<start_at_end, truncations, files, n_inodes, t_pc, t_inode,
                   t_st, t_pos, t_f, emitted>>

\* A new, empty file is created at the path.
FsCreate ==
    /\ path_inode = 0
    /\ n_inodes < MaxInodes
    /\ n_inodes' = n_inodes + 1
    /\ path_inode' = n_inodes + 1
    /\ UNCHANGED <<start_at_end, truncations, files, t_pc, t_inode, t_st,
                   t_pos, t_f, emitted>>

InitTail == TailInit /\ OutboxIdle /\ flush_log = <<>> /\ ParseIdle

NextTail ==
    \/ TailCheck /\ UNCHANGED <<outboxVars, flush_log, parseVars>>
    \/ TailStat /\ UNCHANGED <<outboxVars, flush_log, parseVars>>
    \/ TailOpen /\ UNCHANGED <<outboxVars, flush_log, parseVars>>
    \/ TailReadline /\ UNCHANGED <<outboxVars, flush_log, parseVars>>
    \/ TailPersistFails /\ UNCHANGED <<outboxVars, flush_log, parseVars>>
    \/ FsWrite /\ UNCHANGED <<outboxVars, flush_log, parseVars>>
    \/ FsTruncate /\ UNCHANGED <<outboxVars, flush_log, parseVars>>
    \/ FsRotate /\ UNCHANGED <<outboxVars, flush_log, parseVars>>
    \/ FsRemove /\ UNCHANGED <<outboxVars, flush_log, parseVars>>
    \/ FsCreate /\ UNCHANGED <<outboxVars, flush_log, parseVars>>

SpecTail == InitTail /\ [][NextTail]_vars

\* ----------------------------------------------- the tailer of monitor_logs
\* monitor_logs of agent_with_sql_outbox.py over the same file system:
\* ensure_log_file, open(LOG_FILE) and follow(), which seeks to the end and
\* reads the one descriptor for ever. t_pc and t_f are its position and its
\* file object; emitted holds the lines it hands on as events.
FollowInit ==
    /\ start_at_end = TRUE
    /\ path_inode \in {0, 1}
    /\ n_inodes = path_inode
    /\ files = [i \in 1..MaxInodes |-> <<>>]
    /\ truncations = 0
    /\ t_pc = "ensure"
    /\ t_inode = 0
    /\ t_st = 0
    /\ t_pos = 0
    /\ t_f = [inode |-> 0, off |-> 0]
    /\ emitted = <<>>

\* Lines 185-193 and 213: ensure_log_file creates the file when it is missing;
\* an error of open(path, "a") is not caught anywhere.
FollowEnsure ==
    /\ t_pc = "ensure"
    /\ \/ /\ path_inode # 0
          /\ t_pc' = "open"
          /\ UNCHANGED <<path_inode, n_inodes>>
       \/ /\ path_inode = 0
          /\ n_inodes < MaxInodes
          /\ n_inodes' = n_inodes + 1
          /\ path_inode' = n_inodes + 1
          /\ t_pc' = "open"
       \/ /\ path_inode = 0
          /\ t_pc' = "terminated"
          /\ UNCHANGED <<path_inode, n_inodes>>
    /\ UNCHANGED <<start_at_end, truncations, files, t_inode, t_st, t_pos, t_f,
                   emitted>>

\* Lines 217-218 and 196: open(LOG_FILE, "r") and the seek to the end. When
\* the file is missing or cannot be read, the exception is caught at line 231
\* and monitor_logs returns.
FollowOpen ==
    /\ t_pc = "open"
    /\ \/ /\ path_inode # 0
          /\ t_f' = [inode |-> path_inode, off |-> Len(files[path_inode])]
          /\ t_pc' = "readline"
       \/ /\ t_pc' = "terminated"
          /\ UNCHANGED t_f
    /\ UNCHANGED <<start_at_end, truncations, path_inode, files, n_inodes,
                   t_inode, t_st, t_pos, emitted>>

\* Lines 198-202 and 219-224: one readline of follow(); a line is yielded and,
\* unless parse_log_line returns None, becomes an event.
FollowReadline ==
    /\ t_pc = "readline"
    /\ LET line == ReadLine(files[t_f.inode], t_f.off) IN
       /\ line # <<>>
       /\ t_f' = [t_f EXCEPT !.off = t_f.off + Len(line)]
       /\ emitted' = IF parse_log_line(line, 1) = None THEN emitted
                     ELSE Append(emitted, [inode |-> t_f.inode, off |-> t_f.off,
                                           text |-> RStripNewline(line)])
    /\ UNCHANGED <<start_at_end, truncations, path_inode, files, n_inodes,
                   t_inode, t_st, t_pos, t_pc>>

InitFollow == FollowInit /\ OutboxIdle /\ flush_log = <<>> /\ ParseIdle

NextFollow ==
    \/ FollowEnsure /\ UNCHANGED <<outboxVars, flush_log, parseVars>>
    \/ FollowOpen /\ UNCHANGED <<outboxVars, flush_log, parseVars>>
    \/ FollowReadline /\ UNCHANGED <<outboxVars, flush_log, parseVars>>
    \/ FsWrite /\ UNCHANGED <<outboxVars, flush_log, parseVars>>
    \/ FsTruncate /\ UNCHANGED <<outboxVars, flush_log, parseVars>>
    \/ FsRotate /\ UNCHANGED <<outboxVars, flush_log, parseVars>>
    \/ FsRemove /\ UNCHANGED <<outboxVars, flush_log, parseVars>>
    \/ FsCreate /\ UNCHANGED <<outboxVars, flush_log, parseVars>>

SpecFollow == InitFollow /\ [][NextFollow]_vars

\* ------------------------------------------------------------------ claims
IsSent(eid) == \E i \in 1..Len(outbox) : outbox[i].event_id = eid /\ outbox[i].sent

InFlush(t) == pc[t] \in {"fetch", "insert", "find", "mark"}

\* C2: every outbox record with sent = true has a document with its event_id
\* in the remote store, under every interleaving of the two flushes.
C2_SentOnlyAfterConfirmation ==
    \A i \in 1..Len(outbox) :
        outbox[i].sent => Present(remote, outbox[i].event_id)

\* A record was marked sent while both threads were inside flush_outbox.
C2_Witness ==
    /\ \E i \in 1..Len(outbox) : outbox[i].sent
    /\ \E i \in 1..Len(outbox) : ~outbox[i].sent
    /\ InFlush("main") /\ InFlush("retry")
    /\ faults > 0

\* C3: the remote store holds at most one document per event_id.
C3_AtMostOneDocumentPerEvent ==
    \A eid \in EventIds : DocCount(remote, eid) <= 1

\* The step in which monitor_logs persists an entry (any step out of "read").
PersistStep == pc["main"] = "read" /\ pc'["main"] = "fetch"

UniqueEventIds ==
    \A i, j \in 1..Len(outbox) :
        outbox[i].event_id = outbox[j].event_id => i = j

\* C5: an append either inserts one new unsent record with an event_id no
\* record had and reports Inserted, or (the event_id exists) reports
\* AlreadyExists, does not raise (the thread goes on to flush) and leaves the
\* table as it was; no event_id ever occurs twice.
C5_IdempotentAppend ==
    /\ []UniqueEventIds
    /\ [][PersistStep =>
            \/ /\ last_append' = "Inserted"
               /\ Len(outbox') = Len(outbox) + 1
               /\ SubSeq(outbox', 1, Len(outbox)) = outbox
               /\ ~HasEvent(outbox, outbox'[Len(outbox')].event_id)
               /\ ~outbox'[Len(outbox')].sent
            \/ /\ last_append' = "AlreadyExists"
               /\ outbox' = outbox]_vars

\* A second append of an event_id whose record is already sent, just made.
C5_Witness ==
    /\ pc["main"] = "fetch"
    /\ last_append = "AlreadyExists"
    /\ \E i \in 1..Len(outbox) : outbox[i].sent
    /\ Len(outbox) < MaxEvents

\* C6: no step deletes a record or changes its id or event_id, and no step
\* turns a sent flag from true back to false.
C6_SentMonotoneNoDelete ==
    [][/\ Len(outbox') >= Len(outbox)
       /\ \A i \in 1..Len(outbox) :
            /\ outbox'[i].id = outbox[i].id
            /\ outbox'[i].event_id = outbox[i].event_id
            /\ (outbox[i].sent => outbox'[i].sent)]_vars

\* After a restart: a sent record, an unsent one, and a flush under way.
C6_Witness ==
    /\ restarts > 0
    /\ \E i \in 1..Len(outbox) : outbox[i].sent
    /\ \E i \in 1..Len(outbox) : ~outbox[i].sent
    /\ pc["retry"] = "mark"

SentIn(ob, eid) == \E i \in 1..Len(ob) : ob[i].event_id = eid /\ ob[i].sent

\* The event_ids of the `limit` oldest unsent records, by position in the table.
OldestUnsent(ob, limit) ==
    {ob[i].event_id : i \in {k \in 1..Len(ob) :
        /\ ~ob[k].sent
        /\ Cardinality({j \in 1..(k - 1) : ~ob[j].sent}) < limit}}

\* A step that opens a store handle on the persisted file: the restart itself
\* and the init_sqlite of either thread.
ReopenStep ==
    \/ restarts' = restarts + 1
    \/ pc["main"] = "boot" /\ pc'["main"] = "spawn"
    \/ pc["retry"] = "init" /\ pc'["retry"] = "sleep"

\* flush_outbox of thread t returns without an exception.
FlushReturns(t) == pc[t] = "mark" /\ pc'[t] \in {"read", "sleep"}

\* C4 as stated: once the first flush_outbox call made after the restart has
\* returned (here: without an exception, and with no remote fault at all),
\* every event that was unsent at the restart is sent.
C4_NextFlushDelivers ==
    (restarts > 0 /\ first_flush = "returned" /\ faults = 0) =>
        \A eid \in unsent_at_restart : IsSent(eid)

\* C4 (amended): a restart and the reopening of the store leave every record
\* as it was, so an event unsent at the restart is still present and unsent
\* when the process comes up; each flush fetches the BATCH_SIZE oldest unsent
\* records, and when it returns it has marked sent, with a document in the
\* remote store, every fetched record that was not reported failed.
C4_CrashSafety ==
    /\ [](\A eid \in unsent_at_restart : HasEvent(outbox, eid))
    /\ [](pc["main"] = "boot" =>
            \A eid \in unsent_at_restart : ~IsSent(eid))
    /\ [][/\ ReopenStep => outbox' = outbox
          /\ \A t \in Threads :
               /\ (pc[t] = "fetch" /\ pc'[t] = "insert") =>
                    Range(EventIdsOf(rows'[t])) = OldestUnsent(outbox, BATCH_SIZE)
               /\ FlushReturns(t) =>
                    \A eid \in Range(EventIdsOf(rows[t])) \ Range(failed[t]) :
                        SentIn(outbox', eid) /\ Present(remote', eid)]_vars

\* An event unsent at the restart has been delivered by the first flush after it.
C4_Witness ==
    /\ restarts > 0
    /\ first_flush = "returned"
    /\ \E eid \in unsent_at_restart : IsSent(eid) /\ Present(remote, eid)

\* What Find must compute for thread t: succeeded is the batch's event_ids now
\* in the remote store, failed the rest.
Partitioned(t) ==
    LET ids == Range(EventIdsOf(rows[t]))
        there == {eid \in ids : Present(remote', eid)}
    IN  /\ Range(succeeded'[t]) = there
        /\ Range(failed'[t]) = ids \ there
        /\ Range(succeeded'[t]) \cap Range(failed'[t]) = {}
        /\ Range(succeeded'[t]) \cup Range(failed'[t]) = ids
        /\ Len(succeeded'[t]) + Len(failed'[t]) = Len(rows[t])

\* C10 as stated: after a bulk-write error the call always ends with the
\* partition and no exception reaches the caller.
C10_NeverRaised ==
    [][\A t \in Threads :
         (pc[t] = "find" /\ pc'[t] # "find" /\ restarts' = restarts) =>
             (pc'[t] = "mark" /\ Partitioned(t))]_vars

\* C10 (amended): after a bulk-write error, when the reconciliation query is
\* answered, succeeded is exactly the batch's event_ids present in the remote
\* store and failed exactly the rest (disjoint, together the batch).
C10_Reconciled ==
    [][\A t \in Threads :
         (pc[t] = "find" /\ pc'[t] = "mark") => Partitioned(t)]_vars

\* A reconciliation that found part of the batch stored and part not.
C10_Witness ==
    \E t \in Threads :
        /\ pc[t] = "mark"
        /\ succeeded[t] # <<>>
        /\ failed[t] # <<>>

\* Case-insensitive occurrence of keyword kw in line, letter by letter.
SameLetter(a, b) == UpperChar(a) = UpperChar(b)

Occurs(line, level) ==
    LET kw == Chars(level) IN
    \E i \in 1..Len(line) :
        /\ i + Len(kw) - 1 <= Len(line)
        /\ \A j \in 1..Len(kw) : SameLetter(line[i + j - 1], kw[j])

\* C8: the severity is the first keyword of CRITICAL, FATAL, ERROR, WARNING,
\* WARN that occurs case-insensitively in the line, and INFO when none does;
\* in particular a line with both ERROR and WARNING is ERROR.
C8_SeverityPrecedence ==
    (p_result # Idle /\ p_result # None) =>
        LET sev == p_result.severity
            order == <<"CRITICAL", "FATAL", "ERROR", "WARNING", "WARN">>
        IN  /\ \A k \in 1..5 :
                 sev = order[k] <=>
                     /\ Occurs(p_line, order[k])
                     /\ \A j \in 1..(k - 1) : ~Occurs(p_line, order[j])
            /\ sev = "INFO" <=> \A k \in 1..5 : ~Occurs(p_line, order[k])
            /\ (Occurs(p_line, "ERROR") /\ Occurs(p_line, "WARNING")
                /\ ~Occurs(p_line, "CRITICAL") /\ ~Occurs(p_line, "FATAL"))
               => sev = "ERROR"

\* A line with lower-case "error" after "WARNING" was classified ERROR.
C8_Witness ==
    /\ p_result # Idle /\ p_result # None
    /\ p_result.severity = "ERROR"
    /\ Occurs(p_line, "WARNING")
    /\ Contains(p_line, <<"e","r","r","o","r">>)

\* The batch the k-th successful flush of the scenario must mark: the records
\* with local ids (k-1)*BATCH_SIZE+1 .. k*BATCH_SIZE, cut at the last one, in
\* ascending local id order.
ExpectedBatch(k) ==
    LET first == (k - 1) * BATCH_SIZE + 1
        last == Min(k * BATCH_SIZE, ScenarioEvents)
    IN  [i \in 1..(last - first + 1) |-> outbox[first + i - 1].event_id]

\* C7: while the remote store is unreachable every record stays unsent
\* whatever flushes are attempted; once it is reachable the successive flushes
\* mark BATCH_SIZE, BATCH_SIZE and 2 records in ascending local id order
\* (5, 5, 2 of 12 for BATCH_SIZE = 5), after which every record is sent and
\* the remote store holds exactly one document per event, 12 in all.
C7_BatchDrain ==
    /\ ~reachable => \A i \in 1..Len(outbox) : ~outbox[i].sent
    /\ Len(flush_log) <= 3
    /\ \A k \in 1..Len(flush_log) : flush_log[k] = ExpectedBatch(k)
    /\ \A i \in 1..Len(outbox) :
         outbox[i].sent <=> i <= Len(flush_log) * BATCH_SIZE
    /\ \A i \in 1..Len(outbox) : outbox[i].id = i
    /\ Len(flush_log) = 3 =>
         /\ Len(outbox) = ScenarioEvents
         /\ \A i \in 1..Len(outbox) :
              outbox[i].sent /\ DocCount(remote, outbox[i].event_id) = 1
         /\ BagCardinality(remote) = ScenarioEvents
    /\ (BATCH_SIZE = 5 /\ Len(flush_log) = 3) =>
         /\ Len(outbox) = 12
         /\ <<Len(flush_log[1]), Len(flush_log[2]), Len(flush_log[3])>> = <<5, 5, 2>>
         /\ BagCardinality(remote) = 12

\* The scenario as specified, at its end: 12 events, BATCH_SIZE 5, three
\* flushes done after at least one failed attempt.
C7_Witness ==
    /\ BATCH_SIZE = 5
    /\ Len(outbox) = 12
    /\ Len(flush_log) = 3
    /\ first_flush = "raised"
    /\ \A i \in 1..Len(outbox) : outbox[i].sent

\* No line (a position of a file) is handed to persist_match twice.
NoReEmit ==
    \A i, j \in 1..Len(emitted) :
        (emitted[i].inode = emitted[j].inode /\ emitted[i].off = emitted[j].off)
            => i = j

\* C9: when the file at the path is not the one the tailer read last, the
\* tailer opens it at the configured start position (its start, or its end),
\* and it never emits the same line twice; also when the file is replaced
\* between the identity check and the open.
C9_RotationCorrect ==
    /\ []NoReEmit
    /\ [][(t_pc = "open" /\ t_pc' = "readline" /\ t_f.inode # 0
           /\ t_f'.inode # t_f.inode) =>
              t_f'.off = (IF start_at_end THEN Len(files[t_f'.inode]) ELSE 0)]_vars

\* C1: every record in the outbox eventually has sent = true, whatever
\* transient failures, restarts and interleavings come before.
C1_AtLeastOnce ==
    \A eid \in EventIds : HasEvent(outbox, eid) ~> IsSent(eid)

\* More records than one batch holds are all sent, after the faults.
C1_Witness ==
    /\ Len(outbox) > BATCH_SIZE
    /\ faults = MaxFaults
    /\ \A i \in 1..Len(outbox) : outbox[i].sent

\* The send of thread t's flush fails: flush_outbox is left from the insert or
\* from the reconciliation query without reaching mark_sent.
SendFails(t) ==
    /\ pc[t] \in {"insert", "find"}
    /\ pc'[t] \notin {"insert", "find", "mark"}
    /\ restarts' = restarts

\* C11: when the remote send fails with an error other than a bulk-write
\* error (the store does not answer, or the connection drops, possibly after
\* documents were stored), the exception reaches the caller of flush_outbox
\* (the retry loop's handler runs, the ingestion loop reads on, and a first
\* flush is recorded as raised), the outbox is exactly as before, and every
\* record of the batch that is still unsent is fetched again by the next call.
C11_SendErrorPropagates ==
    [][\A t \in Threads :
         /\ (pc[t] = "insert" /\ pc'[t] # "insert" /\ ~reachable
                 /\ restarts' = restarts) => SendFails(t)
         /\ SendFails(t) =>
              /\ pc'[t] = (IF t = "retry" THEN "cooldown" ELSE "read")
              /\ (first_flush = "none" => first_flush' = "raised")
              /\ outbox' = outbox
              /\ \A eid \in Range(EventIdsOf(rows[t])) :
                    ~SentIn(outbox, eid) =>
                        /\ ~SentIn(outbox', eid)
                        /\ eid \in Range(EventIdsOf(
                                      fetch_unsent(outbox', BATCH_SIZE)))]_vars

\* The retry flush has just failed on a dropped connection: the document is
\* in the remote store and its record is still unsent.
C11_Witness ==
    /\ pc["retry"] = "cooldown"
    /\ reachable
    /\ faults > 0
    /\ \E i \in 1..Len(outbox) :
         ~outbox[i].sent /\ Present(remote, outbox[i].event_id)

\* The ingestion loop is at follow() and a line that parses to an entry can be
\* persisted and flushed.
MainCanGoOn ==
    \E line \in MainLines, uuid \in UuidChoices(outbox) :
         /\ parse_log_line(line, uuid) # None
         /\ Len(persist_log(outbox, parse_log_line(line, uuid))) >= Len(outbox)

\* C12: an exception raised by flush_outbox stops neither loop. The retry
\* loop goes to its cooldown and from there always reaches its next flush; the
\* ingestion loop is back at reading, where persisting the next line and
\* flushing again is possible; neither thread, once started, is ever stopped
\* other than by the process dying.
C12_LoopsSurviveFlushErrors ==
    /\ [][/\ SendFails("retry") => pc'["retry"] = "cooldown"
          /\ SendFails("main") => pc'["main"] = "read"
          /\ \A t \in Threads :
                (pc'[t] = "off" /\ pc[t] # "off") => restarts' = restarts + 1]_vars
    /\ [](pc["main"] = "read" => MainCanGoOn)
    /\ (pc["retry"] = "cooldown") ~> (pc["retry"] = "fetch")

\* The ingestion flush raised (the retry thread has not flushed yet) and the
\* ingestion loop has persisted the next line and is flushing again.
C12_Witness ==
    /\ restarts = 0
    /\ pc["retry"] = "init"
    /\ first_flush = "raised"
    /\ pc["main"] = "mark"
    /\ Len(outbox) >= 2

\* The local id of the record that carries event_id eid.
LocalId(ob, eid) == ob[CHOOSE i \in 1..Len(ob) : ob[i].event_id = eid].id

\* The contract of fetch_unsent on table ob for one limit.
FetchContract(ob, limit) ==
    LET got == fetch_unsent(ob, limit)
        unsent == {i \in 1..Len(ob) : ~ob[i].sent}
    IN  /\ \A k \in 1..Len(got) :
             \E i \in unsent : Row(ob[i]) = got[k]
        /\ \A k \in 1..(Len(got) - 1) :
             LocalId(ob, got[k].event_id) < LocalId(ob, got[k + 1].event_id)
        /\ Len(got) = Min(limit, Cardinality(unsent))
        /\ \A i \in unsent :
             (\E k \in 1..Len(got) : ob[i].id < LocalId(ob, got[k].event_id))
                 => \E k \in 1..Len(got) : got[k].event_id = ob[i].event_id

\* C13: for every table the agent reaches and every limit, fetch_unsent
\* returns only unsent records, in strictly ascending local id order, exactly
\* min(limit, number of unsent) of them, omitting no unsent record older than
\* one it returns; the fetch of a flush hands flush_outbox exactly that result
\* and leaves the table as it was.
C13_FetchUnsentContract ==
    /\ [](\A limit \in 0..(MaxEvents + 1) : FetchContract(outbox, limit))
    /\ [][\A t \in Threads :
            (pc[t] = "fetch" /\ pc'[t] # "fetch" /\ restarts' = restarts) =>
                /\ outbox' = outbox
                /\ pc'[t] = "insert" => rows'[t] = fetch_unsent(outbox, BATCH_SIZE)
                /\ pc'[t] # "insert" => fetch_unsent(outbox, BATCH_SIZE) = <<>>]_vars

\* A fetch has just returned the two unsent records of a table in which a
\* sent record lies between them; with limit 1 it returns the older one.
C13_Witness ==
    \E t \in Threads :
        /\ pc[t] = "insert"
        /\ Len(outbox) = 3
        /\ ~outbox[1].sent /\ outbox[2].sent /\ ~outbox[3].sent
        /\ rows[t] = <<Row(outbox[1]), Row(outbox[3])>>
        /\ fetch_unsent(outbox, 1) = <<Row(outbox[1])>>

\* C14: whatever is handed to persist_match is a complete line: at the moment
\* it is emitted, the file holds its terminating newline right after its text.
C14_NoPartialLine ==
    [][Len(emitted') > Len(emitted) =>
         LET e == emitted'[Len(emitted')]
             c == files[e.inode]
             stop == e.off + Len(e.text) + 1
         IN  stop <= Len(c) /\ c[stop] = "\n"]_vars

\* C15: every event parse_log_line returns has a severity among CRITICAL,
\* FATAL, ERROR, WARNING and INFO.
C15_SeverityInEnum ==
    (p_result # Idle /\ p_result # None) =>
        p_result.severity \in {"CRITICAL", "FATAL", "ERROR", "WARNING", "INFO"}

\* A step in which the ingestion loop takes a line from follow().
IngestStep ==
    /\ pc["main"] = "read"
    /\ <<p_line, p_result, outbox, pc>>' # <<p_line, p_result, outbox, pc>>

\* Nothing but newlines.
IsEmptyLine(line) == \A i \in 1..Len(line) : line[i] = "\n"

\* Nothing but whitespace.
IsBlankLine(line) == \A i \in 1..Len(line) : line[i] \in {" ", "\t", "\n"}

\* C16 as stated: for a line that is empty or made of whitespace only, the
\* ingestion loop appends no record and starts no flush.
C16_BlankSkipped ==
    [][(IngestStep /\ IsBlankLine(p_line')) =>
          (outbox' = outbox /\ pc'["main"] = "read")]_vars

\* C16 (amended): a line that is empty once its trailing newline is removed
\* is skipped (no record appended, no flush started); every other line, a
\* line of whitespace included, is appended as an unsent record with that
\* text (or found a duplicate) and followed by a flush attempt.
C16_EmptySkipped ==
    [][IngestStep =>
          IF IsEmptyLine(p_line')
          THEN outbox' = outbox /\ pc'["main"] = "read" /\ p_result' = None
          ELSE /\ pc'["main"] = "fetch"
               /\ \/ last_append' = "AlreadyExists" /\ outbox' = outbox
                  \/ /\ last_append' = "Inserted"
                     /\ Len(outbox') = Len(outbox) + 1
                     /\ SubSeq(outbox', 1, Len(outbox)) = outbox
                     /\ ~outbox'[Len(outbox')].sent
                     /\ outbox'[Len(outbox')].message \o <<"\n">> = p_line']_vars

\* An empty line has just been skipped after a whitespace line was persisted.
C16_Witness ==
    /\ p_line = <<"\n">>
    /\ p_result = None
    /\ pc["main"] = "read"
    /\ \E i \in 1..Len(outbox) : outbox[i].message = <<" ">>

\* C17: when the tailer has read a matching line, either the line has been
\* persisted or the tailer has left its reading loop with the failure; it
\* never goes on to the next line with the line lost.
C17_AppendFailureNotSwallowed ==
    [][(/\ t_pc = "readline"
        /\ t_f'.inode = t_f.inode
        /\ t_f'.off > t_f.off
        /\ Matches(RStripNewline(ReadLine(files[t_f.inode], t_f.off)))) =>
           (Len(emitted') = Len(emitted) + 1 \/ t_pc' # "readline")]_vars

\* C18: when the tailer reopens the file it read last (same inode) and finds
\* it shorter than the offset it recorded, it does not resume at that offset:
\* it starts reading inside the file as it is now.
C18_TruncationDetected ==
    [][(/\ t_pc = "open" /\ t_pc' = "readline"
        /\ t_inode = t_st
        /\ t_f'.inode = t_inode
        /\ Len(files[t_f'.inode]) < t_pos) =>
           t_f'.off <= Len(files[t_f'.inode])]_vars

\* C19: the tailer never reaches a terminated state because the watched file
\* is missing or cannot be read.
C19_NeverTerminates == t_pc # "terminated"

\* The positions of the table whose record differs across the step.
Changed == {i \in 1..Len(outbox) : outbox'[i] # outbox[i]}

\* A step of thread t inside flush_outbox.
FlushStep(t) == InFlush(t) /\ pc'[t] # pc[t] /\ restarts' = restarts

\* C20: a step of flush_outbox never adds or removes a record; the only step
\* that changes one is mark_sent, which turns sent from false to true, and
\* nothing else, on at most BATCH_SIZE records, each of them fetched as unsent
\* by this call and confirmed by the remote store; a flush whose fetch finds
\* no unsent record ends there, with the table and the remote store untouched.
C20_FlushFrame ==
    [][\A t \in Threads : FlushStep(t) =>
         /\ Len(outbox') = Len(outbox)
         /\ pc[t] # "mark" => outbox' = outbox
         /\ Cardinality(Changed) <= BATCH_SIZE
         /\ \A i \in Changed :
              /\ outbox'[i] = [outbox[i] EXCEPT !.sent = TRUE]
              /\ ~outbox[i].sent
              /\ Row(outbox[i]) \in Range(rows[t])
              /\ outbox[i].event_id \in Range(succeeded[t])
         /\ (pc[t] = "fetch" /\ UnsentIds(outbox) = {}) =>
              /\ ~InFlush(t)'
              /\ outbox' = outbox
              /\ remote' = remote]_vars

\* A flush is about to mark part of its batch (the rest was not confirmed)
\* while the table holds an unsent record that this call did not fetch.
C20_Witness ==
    \E t \in Threads :
        /\ pc[t] = "mark"
        /\ succeeded[t] # <<>>
        /\ failed[t] # <<>>
        /\ Len(outbox) = 3
        /\ \E i \in 1..3 : ~outbox[i].sent /\ Row(outbox[i]) \notin Range(rows[t])

====
